---- MODULE Spec2Model ----
(***************************************************************************)
(* Model of app/main.py: the operation registry with its TTL sweep, the    *)
(* three background runners (deploy, test, teardown) with the stack        *)
(* reconciler and the event-tailing loop they share, and the cursor read   *)
(* of /api/op/{op_id}.                                                     *)
(*                                                                         *)
(* Strings built with f-strings are tuples of their parts.  A stack status *)
(* is the tuple of its "_"-separated words, so that endswith("COMPLETE")   *)
(* and the substring tests on FAILED / ROLLBACK are computed, not assumed. *)
(* The providers (CloudFormation, SSM, Kafka) are the environment: every   *)
(* call draws its response from the set of answers the call can give.      *)
(***************************************************************************)
EXTENDS Integers, Sequences, FiniteSets, TLC

\* ------------------------------------------------------------------ bounds

\* Largest number of events a stack's event feed grows to.
MaxEvents == 2
\* Largest number of clock advances in one behaviour.
MaxTicks == 2
\* Largest number of pending rounds of the command loop that is counted.
MaxPolls == 2

\* --------------------------------------------------------------- constants

TTL_SECONDS == 30 * 60

\* Identifiers uuid4 hands out, in the order it hands them out: OpIds where one
\* operation is followed, OpIdsTTL where the registry holds several.
OpIds == {1}
OpIdsTTL == {1, 2}

Kinds == {"deploy", "test", "teardown"}

\* The session's stack_name, the base of every stack name.
Bases == {"demo"}

\* The requested TopicName.
Topics == {"poc-topic"}

\* Optional values: None, or one value.
None == {}
Some(x) == {x}

EmptyDict == [k \in {} |-> ""]

\* ----------------------------------------------------------------- strings

\* status.endswith("COMPLETE") on a status given as its "_"-separated words.
EndsWith(status, word) == Len(status) > 0 /\ status[Len(status)] = word

\* "FAILED" in status, "does not exist" in str(e): one of the parts is the text.
Contains(text, part) == \E k \in 1..Len(text) : text[k] = part

\* str.strip() of a line whose parts are joined by blanks: an empty last part
\* leaves a trailing blank, which strip() removes.
RECURSIVE Strip(_)
Strip(line) ==
  IF Len(line) > 0 /\ line[Len(line)] = ""
  THEN Strip(SubSeq(line, 1, Len(line) - 1))
  ELSE line

\* reversed(events)
RECURSIVE Reversed(_)
Reversed(s) == IF s = <<>> THEN <<>> ELSE Append(Reversed(Tail(s)), Head(s))

\* Variant of SliceFrom that starts one line late.
SliceFromLate(xs, since) == SubSeq(xs, since + 2, Len(xs))

\* xs[since:] for since >= 0
SliceFrom(xs, since) == SubSeq(xs, since + 1, Len(xs))

\* Variant of LastN that keeps the first n.
FirstN(xs, n) == IF Len(xs) <= n THEN xs ELSE SubSeq(xs, 1, n)

\* xs[-n:]
LastN(xs, n) == IF Len(xs) <= n THEN xs ELSE SubSeq(xs, Len(xs) - n + 1, Len(xs))

\* [line for line in output.splitlines() if line.strip()]
RECURSIVE NonBlank(_)
NonBlank(ls) ==
  IF ls = <<>> THEN <<>>
  ELSE IF Head(ls) \in {"", " "} THEN NonBlank(Tail(ls))
  ELSE <<Head(ls)>> \o NonBlank(Tail(ls))

\* ------------------------------------------------------------ the pipeline

\* f"{stack_base}-network" and the like
StackName(base, role) == <<base, role>>

\* The stages of api_deploy.runner in program order.
DeployRoles == <<"network", "msk", "ec2", "ssm">>
DeployLines == << <<"Deploying network stack">>, <<"Deploying MSK stack">>,
                  <<"Deploying EC2 stack">>, <<"Deploying SSM stack">> >>
DeployProgress == <<25, 50, 75, 90>>

\* steps of api_teardown.runner
TeardownRoles == <<"ssm", "ec2", "msk", "network">>
TeardownProgress == <<20, 50, 80, 95>>

NStages == Len(DeployRoles)

\* Variant of Milestones with the last two teardown values exchanged.
MilestonesExchanged(kind) ==
  IF kind = "teardown" THEN <<20, 50, 95, 80>> ELSE DeployProgress

Roles(kind) == IF kind = "teardown" THEN TeardownRoles ELSE DeployRoles

Milestones(kind) == IF kind = "teardown" THEN TeardownProgress ELSE DeployProgress

\* -------------------------------------------------------------- providers

\* botocore ClientError texts, as the parts str(e) is searched for.
ErrNotExist(stack) == <<"ValidationError">> \o stack \o <<"does not exist">>
ErrNoUpdates == <<"ValidationError", "No updates are to be performed">>
ErrOther(api) == <<"Throttling", api, "Rate exceeded">>

\* StackStatus values a stack can show after each request.
CreateStatuses == { <<"CREATE", "IN", "PROGRESS">>, <<"CREATE", "COMPLETE">>,
                    <<"CREATE", "FAILED">>, <<"ROLLBACK", "IN", "PROGRESS">>,
                    <<"ROLLBACK", "COMPLETE">> }
UpdateStatuses == { <<"UPDATE", "IN", "PROGRESS">>, <<"UPDATE", "COMPLETE">>,
                    <<"UPDATE", "COMPLETE", "CLEANUP", "IN", "PROGRESS">>,
                    <<"UPDATE", "ROLLBACK", "IN", "PROGRESS">>,
                    <<"UPDATE", "ROLLBACK", "COMPLETE">> }
DeleteStatuses == { <<"DELETE", "IN", "PROGRESS">>, <<"DELETE", "COMPLETE">>,
                    <<"DELETE", "FAILED">> }

StatusesAfter(request) ==
  CASE request = "create_stack" -> CreateStatuses
    [] request = "update_stack" -> UpdateStatuses
    [] OTHER -> DeleteStatuses

\* One stack event of the feed; the feed lists the newest event first.
Event(id) ==
  [EventId |-> id,
   ResourceStatus |-> IF id % 2 = 1 THEN "IN_PROGRESS" ELSE "DONE",
   LogicalResourceId |-> "Res",
   ResourceStatusReason |-> IF id % 2 = 1 THEN "" ELSE "ok"]

\* describe_stack_events(...)["StackEvents"] when the feed holds n events
Feed(n) == [k \in 1..n |-> Event(n + 1 - k)]

\* The Outputs of a deployed stack, by role.
OutputKeys(role) ==
  CASE role = "network" -> {"MskSubnetIds", "MskSecurityGroupId",
                            "Ec2SubnetId", "Ec2SecurityGroupId"}
    [] role = "msk" -> {"MskClusterArn"}
    [] role = "ec2" -> {"Ec2InstanceId"}
    [] OTHER -> {}

\* What _get_stack_outputs can return: the stack's outputs, or none at all.
StackOutputs(stack) ==
  { [k \in OutputKeys(stack[2]) |-> <<stack, k>>], EmptyDict }

\* get_bootstrap_brokers(ClusterArn=...): with or without the IAM broker string
BrokerResponses(cluster_arn) ==
  { [BootstrapBrokerStringSaslIam |-> <<"brokers", cluster_arn>>], EmptyDict }

\* get_command_invocation(...): Status, StandardOutputContent (as its lines)
\* and StandardErrorContent.
PendingStatuses == {"Pending", "InProgress", "Delayed"}
CommandStatuses == PendingStatuses \cup {"Success", "Failed"}
Stdouts == { <<"1", "2", "3", "4", "5">>, <<"0", "", "1", "2", " ", "3", "4", "5">>, <<>> }
Stderrs == { <<>>, <<"boom">> }
Invocations ==
  [Status : CommandStatuses, StandardOutputContent : Stdouts,
   StandardErrorContent : Stderrs]

\* ------------------------------------------------------------------- state

VARIABLES
  now,         \* time.time(), in seconds
  ticks,       \* how often the clock has advanced
  OPERATIONS,  \* the ids registered in the OPERATIONS dict
  op,          \* the Operation objects, by id (a runner keeps its object
               \* after the registry dropped the id)
  req,         \* what each runner closes over: kind, stack_base, topic
  pc,          \* each runner's position
  loc,         \* each runner's local variables
  sent,        \* the provider requests each runner has issued
  rd           \* the client polling /api/op/{op_id}, one per operation

vars == <<now, ticks, OPERATIONS, op, req, pc, loc, sent, rd>>

\* class Operation, as _register_operation constructs it
NewOperation(created) ==
  [status |-> "RUNNING", progress |-> 0, logs |-> <<>>, outputs |-> EmptyDict,
   error |-> None, created |-> created]

\* A runner's locals before it has assigned any of them.
NewLocals ==
  [i |-> 1, request |-> "", seen |-> {}, pend |-> <<>>, status |-> <<>>,
   exc |-> <<>>, network_outputs |-> EmptyDict, cluster_arn |-> <<>>,
   instance_id |-> <<>>, brokers |-> <<>>, inv |-> None]

\* The response of api_operation while it is being built: code is 0 until the
\* handler returns (200) or raises HTTPException (404); outputs and error are
\* None while the key is not in the response; time is the clock the sweep read.
NoResponse ==
  [code |-> 0, time |-> 0, since |-> 0, status |-> "", progress |-> 0,
   logs |-> <<>>, cursor |-> 0, outputs |-> None, error |-> None]

\* A client that polls one operation: the cursor it will send next, the lines
\* it has received so far, and the request it has in flight.
NewClient == [at |-> "idle", since |-> 0, got |-> <<>>, resp |-> NoResponse]

Init ==
  /\ now = 0
  /\ ticks = 0
  /\ OPERATIONS = {}
  /\ op = <<>>
  /\ req = <<>>
  /\ pc = <<>>
  /\ loc = <<>>
  /\ sent = <<>>
  /\ rd = <<>>

Ops == DOMAIN op

\* The stack the runner is working on.
Role(o) == Roles(req[o].kind)[loc[o].i]
Stack(o) == StackName(req[o].stack_base, Role(o))

\* ----------------------------------------------------------- runner steps

At(o, label) == o \in Ops /\ pc[o] = label

Goto(o, label) == pc' = [pc EXCEPT ![o] = label]

\* Variant of Raise for an exception the runner's handler does not catch: the
\* thread ends.
RaiseUncaught(o, msg) ==
  /\ pc' = [pc EXCEPT ![o] = "done"]
  /\ loc' = [loc EXCEPT ![o].exc = msg]

\* raise inside the try block: control passes to the except clause with exc
Raise(o, msg) ==
  /\ pc' = [pc EXCEPT ![o] = "except"]
  /\ loc' = [loc EXCEPT ![o].exc = msg]

\* op.logs.append(line)
AppendLog(o, line) == op' = [op EXCEPT ![o].logs = Append(@, line)]

\* What is recorded of the requests a runner sends to the providers: calls, the
\* requests of the reconciliation in progress (_deploy_stack or _delete_stack
\* with its _poll_stack_events); reached, the stacks any reconciliation request
\* was sent for; settled, the stacks whose reconciliation got its final answer;
\* last, the latest request; query, what the provider answered to the existence
\* check of that reconciliation (<<"found">>, or the text of its error); params,
\* the Parameters of the latest create or update request; polls, how many
\* rounds of the command loop found the command still pending (counted up to
\* MaxPolls).
NoRequests ==
  [calls |-> {}, reached |-> {}, settled |-> {}, last |-> <<>>, query |-> <<>>,
   params |-> EmptyDict, polls |-> 0]

\* A request of the reconciler for the stack the runner is working on.
Request(o, api) ==
  sent' = [sent EXCEPT ![o].calls = @ \cup {api},
                        ![o].reached = @ \cup {Role(o)},
                        ![o].last = <<api, Role(o)>>]

\* The same, when the answer ends the reconciliation of the stack without an
\* error: the stack is missing (teardown), has no changes, or shows a status
\* that ends the tailing loop.
RequestSettling(o, api) ==
  sent' = [sent EXCEPT ![o].calls = @ \cup {api},
                        ![o].reached = @ \cup {Role(o)},
                        ![o].settled = @ \cup {Role(o)},
                        ![o].last = <<api, Role(o)>>]

\* A request of the runner itself.
Ask(o, api, target) ==
  sent' = [sent EXCEPT ![o].last = <<api, target>>]

\* _register_operation: a fresh id, the Operation in state RUNNING inserted
\* under the lock, the runner thread started.
RegisterOperation(ids, kind, base, topic) ==
  /\ ids \ Ops # {}
  /\ LET op_id == CHOOSE x \in ids \ Ops : \A y \in ids \ Ops : x <= y IN
       /\ op' = op @@ (op_id :> NewOperation(now))
       /\ OPERATIONS' = OPERATIONS \cup {op_id}
       /\ req' = req @@ (op_id :> [kind |-> kind, stack_base |-> base, topic |-> topic])
       /\ pc' = pc @@ (op_id :> "start")
       /\ loc' = loc @@ (op_id :> NewLocals)
       /\ sent' = sent @@ (op_id :> NoRequests)
       /\ rd' = rd @@ (op_id :> NewClient)
  /\ UNCHANGED <<now, ticks>>

\* boto3.Session(...) and the clients: an unknown profile raises.
Start(o) ==
  /\ At(o, "start")
  /\ \/ /\ Goto(o, IF req[o].kind = "test" THEN "lookup" ELSE "log")
        /\ UNCHANGED loc
     \/ Raise(o, <<"ProfileNotFound">>)
  /\ UNCHANGED <<now, ticks, OPERATIONS, op, req, sent, rd>>

\* The parameters of a deploy stage that are read from an earlier stage's
\* outputs: a missing key raises KeyError while the call's arguments are built.
StageParamKeys(role) ==
  CASE role = "msk" -> <<"MskSubnetIds", "MskSecurityGroupId">>
    [] role = "ec2" -> <<"Ec2SubnetId", "Ec2SecurityGroupId">>
    [] OTHER -> <<>>

MissingKeys(keys, dict) == {k \in 1..Len(keys) : keys[k] \notin DOMAIN dict}

FirstMissing(keys, dict) ==
  keys[CHOOSE k \in MissingKeys(keys, dict) : \A j \in MissingKeys(keys, dict) : k <= j]

\* op.logs.append("Deploying ... stack") / op.logs.append(f"Deleting {name}"),
\* then the arguments of the _deploy_stack call.
LogStage(o) ==
  /\ At(o, "log")
  /\ AppendLog(o, IF req[o].kind = "deploy" THEN DeployLines[loc[o].i]
                  ELSE <<"Deleting">> \o Stack(o))
  /\ LET keys == IF req[o].kind = "deploy" THEN StageParamKeys(Role(o)) ELSE <<>> IN
       IF MissingKeys(keys, loc[o].network_outputs) # {}
       THEN Raise(o, <<"KeyError", FirstMissing(keys, loc[o].network_outputs)>>)
       ELSE Goto(o, "describe") /\ UNCHANGED loc
  /\ UNCHANGED <<now, ticks, OPERATIONS, req, sent, rd>>

\* The existence check as a request, with the provider's answer; settles says
\* that the answer ends the reconciliation of the stack.
Query(o, answer, settles) ==
  sent' = [sent EXCEPT ![o].calls = @ \cup {"describe_stacks"},
                        ![o].reached = @ \cup {Role(o)},
                        ![o].settled = IF settles THEN @ \cup {Role(o)} ELSE @,
                        ![o].last = <<"describe_stacks", Role(o)>>,
                        ![o].query = answer]

\* Variant of IsNotExist that takes any ClientError for a missing stack.
IsNotExistAny(e) == e # <<>>

\* "does not exist" in str(e)
IsNotExist(e) == Contains(e, "does not exist")

\* The existence check of _deploy_stack and of _delete_stack:
\* cf.describe_stacks(StackName=stack_name).
DescribeStack(o) ==
  /\ At(o, "describe")
  /\ \/ /\ Query(o, <<"found">>, FALSE)
        /\ Goto(o, IF req[o].kind = "deploy" THEN "update" ELSE "delete")
        /\ UNCHANGED loc
     \/ \E e \in {ErrNotExist(Stack(o)), ErrOther("DescribeStacks")} :
          IF IsNotExist(e)
          THEN IF req[o].kind = "deploy"
               THEN Query(o, e, FALSE) /\ Goto(o, "create") /\ UNCHANGED loc
               ELSE Query(o, e, TRUE) /\ Goto(o, "missing") /\ UNCHANGED loc
          ELSE Query(o, e, FALSE) /\ Raise(o, e)
  /\ UNCHANGED <<now, ticks, OPERATIONS, op, req, rd>>

\* Entering _poll_stack_events: seen = set()
EnterPoll(o, request) ==
  /\ Goto(o, "events")
  /\ loc' = [loc EXCEPT ![o].seen = {}, ![o].request = request]

\* Variant of StageParams that hands the ec2 stack the msk subnets and
\* security group.
StageParamsCrossed(o) ==
  CASE Role(o) = "network" -> [CreateNAT |-> <<"false">>]
    [] Role(o) = "msk" ->
         [MskSubnetIds |-> loc[o].network_outputs["MskSubnetIds"],
          MskSecurityGroupId |-> loc[o].network_outputs["MskSecurityGroupId"]]
    [] Role(o) = "ec2" ->
         [Ec2SubnetId |-> loc[o].network_outputs["MskSubnetIds"],
          Ec2SecurityGroupId |-> loc[o].network_outputs["MskSecurityGroupId"],
          MskClusterArn |-> loc[o].cluster_arn]
    [] OTHER -> EmptyDict

\* The Parameters of the stage's _deploy_stack call, by ParameterKey (for a
\* request body without CreateNAT and ExistingTransitGatewayId).
StageParams(o) ==
  CASE Role(o) = "network" -> [CreateNAT |-> <<"false">>]
    [] Role(o) = "msk" ->
         [MskSubnetIds |-> loc[o].network_outputs["MskSubnetIds"],
          MskSecurityGroupId |-> loc[o].network_outputs["MskSecurityGroupId"]]
    [] Role(o) = "ec2" ->
         [Ec2SubnetId |-> loc[o].network_outputs["Ec2SubnetId"],
          Ec2SecurityGroupId |-> loc[o].network_outputs["Ec2SecurityGroupId"],
          MskClusterArn |-> loc[o].cluster_arn]
    [] OTHER -> EmptyDict

\* cf.update_stack(**kwargs) or cf.create_stack(**kwargs) as a request; settles
\* says that the answer ends the reconciliation of the stack.
Change(o, api, settles) ==
  sent' = [sent EXCEPT ![o].calls = @ \cup {api},
                        ![o].reached = @ \cup {Role(o)},
                        ![o].settled = IF settles THEN @ \cup {Role(o)} ELSE @,
                        ![o].last = <<api, Role(o)>>,
                        ![o].params = StageParams(o)]

\* cf.update_stack(**kwargs) of a stack that exists
UpdateStack(o) ==
  /\ At(o, "update")
  /\ \/ Change(o, "update_stack", FALSE) /\ EnterPoll(o, "update_stack")
     \/ \E e \in {ErrNoUpdates, ErrOther("UpdateStack")} :
          IF Contains(e, "No updates are to be performed")
          THEN Change(o, "update_stack", TRUE) /\ Goto(o, "nochange") /\ UNCHANGED loc
          ELSE Change(o, "update_stack", FALSE) /\ Raise(o, e)
  /\ UNCHANGED <<now, ticks, OPERATIONS, op, req, rd>>

\* Variant of NoChange without the return: the tailing loop follows.
NoChangeThenTail(o) ==
  /\ At(o, "nochange")
  /\ AppendLog(o, <<"No changes for">> \o Stack(o))
  /\ Goto(o, "events")
  /\ UNCHANGED <<now, ticks, OPERATIONS, req, loc, sent, rd>>

\* op.logs.append(f"No changes for {stack_name}"); return
NoChange(o) ==
  /\ At(o, "nochange")
  /\ AppendLog(o, <<"No changes for">> \o Stack(o))
  /\ Goto(o, "progress")
  /\ UNCHANGED <<now, ticks, OPERATIONS, req, loc, sent, rd>>

\* cf.create_stack(**kwargs) of a stack that does not exist
CreateStack(o) ==
  /\ At(o, "create")
  /\ Change(o, "create_stack", FALSE)
  /\ \/ EnterPoll(o, "create_stack")
     \/ Raise(o, ErrOther("CreateStack"))
  /\ UNCHANGED <<now, ticks, OPERATIONS, op, req, rd>>

\* _delete_stack: op.logs.append(f"Stack {stack_name} missing"); return
Missing(o) ==
  /\ At(o, "missing")
  /\ AppendLog(o, <<"Stack">> \o Stack(o) \o <<"missing">>)
  /\ Goto(o, "progress")
  /\ UNCHANGED <<now, ticks, OPERATIONS, req, loc, sent, rd>>

\* Variant of DeleteStack that does not wait for the deletion.
DeleteStackNoWait(o) ==
  /\ At(o, "delete")
  /\ Request(o, "delete_stack")
  /\ Goto(o, "progress")
  /\ UNCHANGED <<now, ticks, OPERATIONS, op, req, loc, rd>>

\* _delete_stack: cf.delete_stack(StackName=stack_name)
DeleteStack(o) ==
  /\ At(o, "delete")
  /\ Request(o, "delete_stack")
  /\ \/ EnterPoll(o, "delete_stack")
     \/ Raise(o, ErrOther("DeleteStack"))
  /\ UNCHANGED <<now, ticks, OPERATIONS, op, req, rd>>

\* _poll_stack_events: cf.describe_stack_events(...)["StackEvents"].  The feed
\* only grows; a stack that was deleted may be gone.
PollEvents(o) ==
  /\ At(o, "events")
  /\ Request(o, "describe_stack_events")
  /\ \/ \E n \in Cardinality(loc[o].seen)..MaxEvents :
          /\ loc' = [loc EXCEPT ![o].pend = Reversed(Feed(n))]
          /\ Goto(o, IF n = 0 THEN "status" ELSE "emit")
     \/ \E e \in {ErrOther("DescribeStackEvents")} \cup
                 (IF loc[o].request = "delete_stack" THEN {ErrNotExist(Stack(o))} ELSE {}) :
          Raise(o, e)
  /\ UNCHANGED <<now, ticks, OPERATIONS, op, req, rd>>

\* The log line of one stack event.
EventLine(ev) ==
  Strip(<<ev.ResourceStatus, ev.LogicalResourceId, ev.ResourceStatusReason>>)

\* Variant of EmitEvent without the test of seen.
EmitEventAgain(o) ==
  /\ At(o, "emit")
  /\ LET ev == Head(loc[o].pend) IN
       /\ loc' = [loc EXCEPT ![o].pend = Tail(@), ![o].seen = @ \cup {ev.EventId}]
       /\ AppendLog(o, EventLine(ev))
       /\ Goto(o, IF Tail(loc[o].pend) = <<>> THEN "status" ELSE "emit")
  /\ UNCHANGED <<now, ticks, OPERATIONS, req, sent, rd>>

\* One round of "for ev in reversed(events)".
EmitEvent(o) ==
  /\ At(o, "emit")
  /\ LET ev == Head(loc[o].pend)
         eid == ev.EventId IN
       /\ IF eid \in loc[o].seen
          THEN /\ loc' = [loc EXCEPT ![o].pend = Tail(@)]
               /\ UNCHANGED op
          ELSE /\ loc' = [loc EXCEPT ![o].pend = Tail(@), ![o].seen = @ \cup {eid}]
               /\ AppendLog(o, EventLine(ev))
       /\ Goto(o, IF Tail(loc[o].pend) = <<>> THEN "status" ELSE "emit")
  /\ UNCHANGED <<now, ticks, OPERATIONS, req, sent, rd>>

\* The classification of the stack's status after a poll.
Classify(status) ==
  IF EndsWith(status, "COMPLETE") THEN "return"
  ELSE IF Contains(status, "FAILED") \/ Contains(status, "ROLLBACK") THEN "raise"
  ELSE "sleep"

\* _poll_stack_events: cf.describe_stacks(...)["Stacks"][0]["StackStatus"] and
\* what follows from it.
PollStatus(o) ==
  /\ At(o, "status")
  /\ \/ \E status \in StatusesAfter(loc[o].request) :
          CASE Classify(status) = "return" ->
                 /\ RequestSettling(o, "describe_stacks")
                 /\ loc' = [loc EXCEPT ![o].status = status]
                 /\ Goto(o, "progress")
            [] Classify(status) = "raise" ->
                 /\ Request(o, "describe_stacks")
                 /\ loc' = [loc EXCEPT ![o].status = status, ![o].exc = Stack(o) \o status]
                 /\ Goto(o, "except")
            [] OTHER ->
                 /\ Request(o, "describe_stacks")
                 /\ Goto(o, "sleep")
                 /\ UNCHANGED loc
     \/ /\ Request(o, "describe_stacks")
        /\ \E e \in {ErrOther("DescribeStacks")} \cup
                   (IF loc[o].request = "delete_stack" THEN {ErrNotExist(Stack(o))} ELSE {}) :
             Raise(o, e)
  /\ UNCHANGED <<now, ticks, OPERATIONS, op, req, rd>>

\* op.progress = 25 / 50 / 75 / 90 after a deploy stage, op.progress = prog
\* after a teardown step; the reconciler's locals are gone.
SetProgress(o) ==
  /\ At(o, "progress")
  /\ op' = [op EXCEPT ![o].progress = Milestones(req[o].kind)[loc[o].i]]
  /\ LET more == loc[o].i < NStages
         next == IF req[o].kind = "teardown" /\ more THEN loc[o].i + 1 ELSE loc[o].i IN
       loc' = [loc EXCEPT ![o].i = next, ![o].request = "", ![o].seen = {},
                          ![o].pend = <<>>, ![o].status = <<>>]
  /\ Goto(o, CASE req[o].kind = "deploy" /\ loc[o].i < NStages -> "outputs"
               [] req[o].kind = "deploy" -> "brokers"
               [] loc[o].i < NStages -> "log"
               [] OTHER -> "logdone")
  /\ sent' = [sent EXCEPT ![o].calls = {}, ![o].query = <<>>]
  /\ UNCHANGED <<now, ticks, OPERATIONS, req, rd>>

\* _get_stack_outputs of the stage just deployed, and the keys read from it
\* right away (cluster_arn, instance_id).
GetOutputs(o) ==
  /\ At(o, "outputs")
  /\ Ask(o, "describe_stacks", Role(o))
  /\ \/ \E outs \in StackOutputs(Stack(o)) :
          CASE Role(o) = "network" ->
                 /\ loc' = [loc EXCEPT ![o].network_outputs = outs, ![o].i = @ + 1]
                 /\ Goto(o, "log")
            [] Role(o) = "msk" /\ "MskClusterArn" \in DOMAIN outs ->
                 /\ loc' = [loc EXCEPT ![o].cluster_arn = outs["MskClusterArn"], ![o].i = @ + 1]
                 /\ Goto(o, "log")
            [] Role(o) = "ec2" /\ "Ec2InstanceId" \in DOMAIN outs ->
                 /\ loc' = [loc EXCEPT ![o].instance_id = outs["Ec2InstanceId"], ![o].i = @ + 1]
                 /\ Goto(o, "log")
            [] OTHER ->
                 Raise(o, <<"KeyError", IF Role(o) = "msk" THEN "MskClusterArn" ELSE "Ec2InstanceId">>)
     \/ Raise(o, ErrOther("DescribeStacks"))
  /\ UNCHANGED <<now, ticks, OPERATIONS, op, req, rd>>

\* api_test.runner: both _get_stack_outputs calls and the two keys.
Lookup(o) ==
  /\ At(o, "lookup")
  /\ \/ /\ Ask(o, "describe_stacks", "ec2")
        /\ \E m \in StackOutputs(StackName(req[o].stack_base, "msk")),
              e \in StackOutputs(StackName(req[o].stack_base, "ec2")) :
             IF "MskClusterArn" \notin DOMAIN m THEN Raise(o, <<"KeyError", "MskClusterArn">>)
             ELSE IF "Ec2InstanceId" \notin DOMAIN e THEN Raise(o, <<"KeyError", "Ec2InstanceId">>)
             ELSE /\ loc' = [loc EXCEPT ![o].cluster_arn = m["MskClusterArn"],
                                        ![o].instance_id = e["Ec2InstanceId"]]
                  /\ Goto(o, "brokers")
     \/ \E role \in {"msk", "ec2"} :
          /\ Ask(o, "describe_stacks", role)
          /\ Raise(o, ErrOther("DescribeStacks"))
  /\ UNCHANGED <<now, ticks, OPERATIONS, op, req, rd>>

\* kafka.get_bootstrap_brokers(ClusterArn=cluster_arn): deploy reads the broker
\* string with .get(..., ""), test with [...].
GetBrokers(o) ==
  /\ At(o, "brokers")
  /\ Ask(o, "get_bootstrap_brokers", "msk")
  /\ \/ \E r \in BrokerResponses(loc[o].cluster_arn) :
          IF "BootstrapBrokerStringSaslIam" \in DOMAIN r
          THEN /\ loc' = [loc EXCEPT ![o].brokers = r.BootstrapBrokerStringSaslIam]
               /\ Goto(o, IF req[o].kind = "deploy" THEN "setout" ELSE "testlog")
          ELSE IF req[o].kind = "deploy"
          THEN /\ loc' = [loc EXCEPT ![o].brokers = <<>>]
               /\ Goto(o, "setout")
          ELSE Raise(o, <<"KeyError", "BootstrapBrokerStringSaslIam">>)
     \/ Raise(o, ErrOther("GetBootstrapBrokers"))
  /\ UNCHANGED <<now, ticks, OPERATIONS, op, req, rd>>

\* api_deploy.runner: op.outputs = {...}
SetOutputs(o) ==
  /\ At(o, "setout")
  /\ op' = [op EXCEPT ![o].outputs =
              [ClusterArn |-> loc[o].cluster_arn, BootstrapBrokers |-> loc[o].brokers,
               Ec2InstanceId |-> loc[o].instance_id]]
  /\ Goto(o, "logdone")
  /\ UNCHANGED <<now, ticks, OPERATIONS, req, loc, sent, rd>>

\* api_test.runner: op.logs.append("Running test via SSM")
TestLog(o) ==
  /\ At(o, "testlog")
  /\ AppendLog(o, <<"Running test via SSM">>)
  /\ Goto(o, "send")
  /\ UNCHANGED <<now, ticks, OPERATIONS, req, loc, sent, rd>>

\* ssm.send_command(...)
SendCommand(o) ==
  /\ At(o, "send")
  /\ Ask(o, "send_command", "ec2")
  /\ \/ Goto(o, "invocation") /\ UNCHANGED loc
     \/ Raise(o, ErrOther("SendCommand"))
  /\ UNCHANGED <<now, ticks, OPERATIONS, op, req, rd>>

\* ssm.get_command_invocation(...) as a request; pending says that the answer
\* sends the loop into another round.
Polled(o, pending) ==
  sent' = [sent EXCEPT ![o].last = <<"get_command_invocation", "ec2">>,
                        ![o].polls = IF pending /\ @ < MaxPolls THEN @ + 1 ELSE @]

\* inv.get("StandardErrorContent") or status
FailureDetail(inv) ==
  IF inv.StandardErrorContent # <<>> THEN inv.StandardErrorContent ELSE <<inv.Status>>

\* Variant of PollCommand that appends the lines of stdout to the log in every
\* round.
PollCommandStreaming(o) ==
  /\ At(o, "invocation")
  /\ \E inv \in Invocations :
       LET out == inv.StandardOutputContent
           pending == inv.Status \in PendingStatuses IN
         /\ Polled(o, pending)
         /\ op' = [op EXCEPT ![o].logs = @ \o [k \in 1..Len(out) |-> <<out[k]>>],
                             ![o].outputs = IF inv.Status = "Success"
                                            THEN [messages |-> LastN(NonBlank(out), 5),
                                                  topic |-> req[o].topic]
                                            ELSE @]
         /\ pc' = [pc EXCEPT ![o] = CASE pending -> "sleep"
                                       [] inv.Status = "Success" -> "logdone"
                                       [] OTHER -> "except"]
         /\ loc' = IF pending THEN loc
                   ELSE IF inv.Status = "Success" THEN [loc EXCEPT ![o].inv = Some(inv)]
                   ELSE [loc EXCEPT ![o].inv = Some(inv), ![o].exc = FailureDetail(inv)]
  /\ UNCHANGED <<now, ticks, OPERATIONS, req, rd>>

\* One round of the "while True" loop of api_test.runner; inv is kept from the
\* round that ends the loop.
PollCommand(o) ==
  /\ At(o, "invocation")
  /\ \/ \E inv \in Invocations :
          IF inv.Status \in PendingStatuses
          THEN Polled(o, TRUE) /\ Goto(o, "sleep") /\ UNCHANGED <<loc, op>>
          ELSE IF inv.Status # "Success"
          THEN /\ Polled(o, FALSE)
               /\ pc' = [pc EXCEPT ![o] = "except"]
               /\ loc' = [loc EXCEPT ![o].inv = Some(inv), ![o].exc = FailureDetail(inv)]
               /\ UNCHANGED op
          ELSE /\ Polled(o, FALSE)
               /\ op' = [op EXCEPT ![o].outputs =
                           [messages |-> LastN(NonBlank(inv.StandardOutputContent), 5),
                            topic |-> req[o].topic]]
               /\ Goto(o, "logdone")
               /\ loc' = [loc EXCEPT ![o].inv = Some(inv)]
     \/ Polled(o, FALSE) /\ Raise(o, ErrOther("GetCommandInvocation")) /\ UNCHANGED op
  /\ UNCHANGED <<now, ticks, OPERATIONS, req, rd>>

\* time.sleep(5) at the end of a round of either polling loop
Sleep(o) ==
  /\ At(o, "sleep")
  /\ Goto(o, IF req[o].kind = "test" THEN "invocation" ELSE "events")
  /\ UNCHANGED <<now, ticks, OPERATIONS, op, req, loc, sent, rd>>

\* The last line a runner logs on success.
DoneLine(kind) ==
  CASE kind = "deploy" -> <<"Deployment complete">>
    [] kind = "test" -> <<"Test complete">>
    [] OTHER -> <<"Teardown complete">>

LogDone(o) ==
  /\ At(o, "logdone")
  /\ AppendLog(o, DoneLine(req[o].kind))
  /\ Goto(o, "finish")
  /\ UNCHANGED <<now, ticks, OPERATIONS, req, loc, sent, rd>>

\* op.progress = 100
Finish(o) ==
  /\ At(o, "finish")
  /\ op' = [op EXCEPT ![o].progress = 100]
  /\ Goto(o, "succeed")
  /\ UNCHANGED <<now, ticks, OPERATIONS, req, loc, sent, rd>>

\* Variant of Succeed followed by a statement that raises.
SucceedThenRaise(o) ==
  /\ At(o, "succeed")
  /\ op' = [op EXCEPT ![o].status = "SUCCEEDED"]
  /\ Raise(o, <<"RuntimeError">>)
  /\ UNCHANGED <<now, ticks, OPERATIONS, req, sent, rd>>

\* op.status = "SUCCEEDED"
Succeed(o) ==
  /\ At(o, "succeed")
  /\ op' = [op EXCEPT ![o].status = "SUCCEEDED"]
  /\ Goto(o, "done")
  /\ UNCHANGED <<now, ticks, OPERATIONS, req, loc, sent, rd>>

\* Variant of LogError for a handler around each stage: the pipeline goes on.
LogErrorAndGoOn(o) ==
  /\ At(o, "except")
  /\ AppendLog(o, <<"Error:">> \o loc[o].exc)
  /\ Goto(o, IF req[o].kind = "test" THEN "seterror" ELSE "progress")
  /\ UNCHANGED <<now, ticks, OPERATIONS, req, loc, sent, rd>>

\* except Exception as exc: op.logs.append(f"Error: {exc}")
LogError(o) ==
  /\ At(o, "except")
  /\ AppendLog(o, <<"Error:">> \o loc[o].exc)
  /\ Goto(o, "seterror")
  /\ UNCHANGED <<now, ticks, OPERATIONS, req, loc, sent, rd>>

\* Variant of SetError that leaves op.error unset.
SetErrorForgotten(o) ==
  /\ At(o, "seterror")
  /\ Goto(o, "fail")
  /\ UNCHANGED <<now, ticks, OPERATIONS, op, req, loc, sent, rd>>

\* op.error = {"message": str(exc)}
SetError(o) ==
  /\ At(o, "seterror")
  /\ op' = [op EXCEPT ![o].error = Some([message |-> loc[o].exc])]
  /\ Goto(o, "fail")
  /\ UNCHANGED <<now, ticks, OPERATIONS, req, loc, sent, rd>>

\* op.status = "FAILED"
Fail(o) ==
  /\ At(o, "fail")
  /\ op' = [op EXCEPT ![o].status = "FAILED"]
  /\ Goto(o, "done")
  /\ UNCHANGED <<now, ticks, OPERATIONS, req, loc, sent, rd>>

\* ------------------------------------------------------- GET /api/op/{id}

\* Variant of Swept that drops an operation at the TTL itself.
SweptAtTTL(t) == {oid \in OPERATIONS : ~(t - op[oid].created >= TTL_SECONDS)}

\* _cleanup_operations: the ids that stay registered at clock reading t
Swept(t) == {oid \in OPERATIONS : ~(t - op[oid].created > TTL_SECONDS)}

\* api_operation up to the lookup: the sweep and OPERATIONS.get(op_id), both at
\* one reading of the clock; an unknown id raises HTTPException(404).
ReadBegin(o) ==
  /\ o \in Ops /\ rd[o].at = "idle"
  /\ OPERATIONS' = Swept(now)
  /\ rd' = [rd EXCEPT ![o].resp = [NoResponse EXCEPT !.time = now, !.since = rd[o].since,
                                     !.code = IF o \in Swept(now) THEN 0 ELSE 404],
                      ![o].at = IF o \in Swept(now) THEN "logs" ELSE "respond"]
  /\ UNCHANGED <<now, ticks, op, req, pc, loc, sent>>

\* logs = op.logs[since:]
ReadLogs(o) ==
  /\ o \in Ops /\ rd[o].at = "logs"
  /\ rd' = [rd EXCEPT ![o].resp.logs = SliceFrom(op[o].logs, rd[o].resp.since),
                      ![o].at = "status"]
  /\ UNCHANGED <<now, ticks, OPERATIONS, op, req, pc, loc, sent>>

\* "status": op.status
ReadStatus(o) ==
  /\ o \in Ops /\ rd[o].at = "status"
  /\ rd' = [rd EXCEPT ![o].resp.status = op[o].status, ![o].at = "progress"]
  /\ UNCHANGED <<now, ticks, OPERATIONS, op, req, pc, loc, sent>>

\* "progress": op.progress, "logs": logs, "cursor": since + len(logs)
ReadProgress(o) ==
  /\ o \in Ops /\ rd[o].at = "progress"
  /\ rd' = [rd EXCEPT ![o].resp.progress = op[o].progress,
                      ![o].resp.cursor = rd[o].resp.since + Len(rd[o].resp.logs),
                      ![o].at = "outputs"]
  /\ UNCHANGED <<now, ticks, OPERATIONS, op, req, pc, loc, sent>>

\* if op.status == "SUCCEEDED" and op.outputs: resp["outputs"] = op.outputs
ReadOutputs(o) ==
  /\ o \in Ops /\ rd[o].at = "outputs"
  /\ rd' = [rd EXCEPT ![o].resp.outputs =
                        IF op[o].status = "SUCCEEDED" /\ DOMAIN op[o].outputs # {}
                        THEN Some(op[o].outputs) ELSE None,
                      ![o].at = "error"]
  /\ UNCHANGED <<now, ticks, OPERATIONS, op, req, pc, loc, sent>>

\* if op.error: resp["error"] = op.error; return resp
ReadError(o) ==
  /\ o \in Ops /\ rd[o].at = "error"
  /\ rd' = [rd EXCEPT ![o].resp.error = op[o].error, ![o].resp.code = 200,
                      ![o].at = "respond"]
  /\ UNCHANGED <<now, ticks, OPERATIONS, op, req, pc, loc, sent>>

\* The client receives the response: it keeps the lines and will send the
\* cursor as the next since.  A 404 leaves its cursor where it was.
Receive(o) ==
  /\ o \in Ops /\ rd[o].at = "respond"
  /\ rd' = [rd EXCEPT ![o].at = "idle", ![o].resp = NoResponse,
                      ![o].since = IF rd[o].resp.code = 200 THEN rd[o].resp.cursor ELSE @,
                      ![o].got = IF rd[o].resp.code = 200 THEN @ \o rd[o].resp.logs ELSE @]
  /\ UNCHANGED <<now, ticks, OPERATIONS, op, req, pc, loc, sent>>

\* One step of a poll of operation o.
Reader(o) ==
  \/ ReadBegin(o) \/ ReadLogs(o) \/ ReadStatus(o) \/ ReadProgress(o)
  \/ ReadOutputs(o) \/ ReadError(o) \/ Receive(o)

\* ------------------------------------------------------------------ clock

\* How far the clock moves in one advance.
TickSteps == {1, TTL_SECONDS}

Tick ==
  /\ ticks < MaxTicks
  /\ \E d \in TickSteps : now' = now + d
  /\ ticks' = ticks + 1
  /\ UNCHANGED <<OPERATIONS, op, req, pc, loc, sent, rd>>

\* One step of the runner thread of operation o.
Runner(o) ==
  \/ Start(o) \/ LogStage(o) \/ DescribeStack(o) \/ UpdateStack(o) \/ NoChange(o)
  \/ CreateStack(o) \/ Missing(o) \/ DeleteStack(o)
  \/ PollEvents(o) \/ EmitEvent(o) \/ PollStatus(o) \/ SetProgress(o)
  \/ GetOutputs(o) \/ Lookup(o) \/ GetBrokers(o) \/ SetOutputs(o)
  \/ TestLog(o) \/ SendCommand(o) \/ PollCommand(o) \/ Sleep(o)
  \/ LogDone(o) \/ Finish(o) \/ Succeed(o)
  \/ LogError(o) \/ SetError(o) \/ Fail(o)

\* The steps of api_test.runner among them.
TestRunner(o) ==
  \/ Start(o) \/ Lookup(o) \/ GetBrokers(o) \/ TestLog(o) \/ SendCommand(o)
  \/ PollCommand(o) \/ Sleep(o) \/ LogDone(o) \/ Finish(o) \/ Succeed(o)
  \/ LogError(o) \/ SetError(o) \/ Fail(o)

\* POST /api/deploy, /api/test, /api/teardown
Submit(ids, kinds) ==
  \E kind \in kinds, base \in Bases, topic \in Topics :
    RegisterOperation(ids, kind, base, topic)

\* ---------------------------------------------------------- specifications

\* One operation of any kind and its runner.
Next ==
  \/ Submit(OpIds, Kinds)
  \/ \E o \in OpIds : Runner(o)

Spec == Init /\ [][Next]_vars

\* The registry under the clock: test operations, of which the first runs and is
\* polled by its client while the later ones wait for their threads to be
\* scheduled.
NextRead ==
  \/ Submit(OpIdsTTL, {"test"})
  \/ Tick
  \/ \E o \in OpIds : TestRunner(o)
  \/ \E o \in OpIds : Reader(o)

SpecRead == Init /\ [][NextRead]_vars

\* A test operation and its client while the clock stands still, under fair
\* scheduling of the runner thread and of the client: each of the two takes its
\* next step whenever it has one.  What the provider answers is not up to the
\* scheduler.
NextPoll ==
  \/ Submit(OpIds, {"test"})
  \/ \E o \in OpIds : TestRunner(o)
  \/ \E o \in OpIds : Reader(o)

FairPoll ==
  /\ Init /\ [][NextPoll]_vars
  /\ \A o \in OpIds : WF_vars(TestRunner(o)) /\ WF_vars(Reader(o))

\* Two operations submitted with the same base name, deploys or teardowns, each
\* followed up to the end of its first reconciliation (or to its failure).
FirstStage(o) ==
  \/ Start(o) \/ LogStage(o) \/ DescribeStack(o) \/ UpdateStack(o) \/ NoChange(o)
  \/ CreateStack(o) \/ Missing(o) \/ DeleteStack(o)
  \/ PollEvents(o) \/ EmitEvent(o) \/ PollStatus(o) \/ Sleep(o)
  \/ LogError(o) \/ SetError(o) \/ Fail(o)

NextPair ==
  \/ Submit(OpIdsTTL, {"deploy", "teardown"})
  \/ \E o \in OpIdsTTL : FirstStage(o)

SpecPair == Init /\ [][NextPair]_vars

\* ------------------------------------------------------------------ claims

Terminal == {"SUCCEEDED", "FAILED"}

IsPrefix(xs, ys) == Len(xs) <= Len(ys) /\ SubSeq(ys, 1, Len(xs)) = xs

\* The read has taken its slice of the log.
HasBatch(o) == rd[o].at \in {"status", "progress", "outputs", "error", "respond"}
                 /\ rd[o].resp.code # 404

\* The lines the client holds once the batch in flight arrives.
Collected(o) == IF HasBatch(o) THEN rd[o].got \o rd[o].resp.logs ELSE rd[o].got

CursorInv ==
  \A o \in Ops :
    /\ rd[o].since = Len(rd[o].got)
    /\ IsPrefix(Collected(o), op[o].logs)
    /\ (rd[o].at = "respond" /\ rd[o].resp.code = 200) =>
          rd[o].resp.cursor = rd[o].resp.since + Len(rd[o].resp.logs)

\* A read that takes its slice when the runner has made its last append
\* completes the log.
CursorStep ==
  \A o \in Ops :
    (rd[o].at = "logs" /\ rd'[o].at = "status" /\ pc[o] = "done") =>
      rd[o].got \o rd'[o].resp.logs = op[o].logs

\* C1: the batches a client receives by passing each cursor back as since are,
\* concatenated, a prefix of the operation's log (nothing twice, nothing
\* skipped), every response has cursor = since + number of lines returned, and
\* a read taken after the runner's last append completes the log.
CursorCompleteness == []CursorInv /\ [][CursorStep]_vars

\* C1 witness: the second of two lines arrives alone in a second batch.
CursorWitness ==
  /\ 1 \in Ops
  /\ rd[1].at = "respond" /\ rd[1].resp.code = 200
  /\ rd[1].got = <<<<"Running test via SSM">>>>
  /\ rd[1].resp.since = 1 /\ rd[1].resp.logs = <<<<"Test complete">>>>

StatusMoves == {<<"QUEUED", "RUNNING">>, <<"RUNNING", "SUCCEEDED">>, <<"RUNNING", "FAILED">>}

StatusStep ==
  \A o \in Ops :
    op'[o].status # op[o].status => <<op[o].status, op'[o].status>> \in StatusMoves

\* C2: the status of an operation changes only along
\* QUEUED -> RUNNING -> {SUCCEEDED, FAILED}; a terminal status never changes.
StatusTransitions == [][StatusStep]_vars

\* C2 witness: a teardown that failed after its first step.
StatusWitness ==
  /\ 1 \in Ops /\ req[1].kind = "teardown"
  /\ op[1].status = "FAILED" /\ op[1].progress = 20

HasOutputs(o) == DOMAIN op[o].outputs # {}
HasError(o) == op[o].error # None

\* C3 as claimed: a terminal operation has outputs or an error, and not both.
TerminalExclusive ==
  \A o \in Ops :
    op[o].status \in Terminal => (HasOutputs(o) /\ ~HasError(o)) \/ (~HasOutputs(o) /\ HasError(o))

\* C3, amended: a terminal operation never has both; FAILED has the error and no
\* outputs; SUCCEEDED has no error, and has outputs unless it is a teardown,
\* which sets none.
TerminalExclusiveAmended ==
  \A o \in Ops :
    /\ op[o].status = "FAILED" => HasError(o) /\ ~HasOutputs(o)
    /\ op[o].status = "SUCCEEDED" =>
          ~HasError(o) /\ (HasOutputs(o) <=> req[o].kind # "teardown")

\* C3 witness: a deploy that succeeded, with its three outputs.
TerminalWitness ==
  /\ 1 \in Ops /\ req[1].kind = "deploy" /\ op[1].status = "SUCCEEDED"
  /\ DOMAIN op[1].outputs = {"ClusterArn", "BootstrapBrokers", "Ec2InstanceId"}

\* C4: under fair scheduling of the runner and of the polling client, the
\* client of every operation eventually receives a response with a terminal
\* status.
EventualTermination ==
  \A o \in OpIds :
    (o \in Ops) ~> (/\ o \in Ops
                    /\ rd[o].at = "respond" /\ rd[o].resp.code = 200
                    /\ rd[o].resp.status \in Terminal)

ProgressInv ==
  \A o \in Ops :
    /\ op[o].progress \in 0..100
    /\ op[o].status = "SUCCEEDED" => op[o].progress = 100

ProgressStep == \A o \in Ops : op'[o].progress >= op[o].progress

\* C5: the progress of an operation never decreases, stays within 0..100, and
\* is 100 whenever the status is SUCCEEDED.
MonotonicProgress == []ProgressInv /\ [][ProgressStep]_vars

\* C5 witness: a deploy whose second stage took the no-change branch and
\* that failed in its third stage.
ProgressWitness ==
  /\ 1 \in Ops /\ req[1].kind = "deploy" /\ op[1].status = "FAILED"
  /\ op[1].progress = 50
  /\ \E k \in 1..Len(op[1].logs) : op[1].logs[k] = <<"No changes for", "demo", "msk">>

ExceptChain == {"except", "seterror", "fail", "done"}

\* What the reconciliation of a deploy stage can fail with: the stack with the
\* status that ended the tailing loop, or the provider's error.
FailureReasons(stack) ==
  {stack \o st : st \in CreateStatuses \cup UpdateStatuses}
    \cup {ErrOther(api) : api \in {"DescribeStacks", "UpdateStack", "CreateStack",
                                   "DescribeStackEvents"}}

AbortInv ==
  \A o \in Ops :
    (req[o].kind = "deploy" /\ loc[o].exc # <<>>) =>
      /\ pc[o] \in ExceptChain
      /\ sent[o].reached \subseteq {DeployRoles[j] : j \in 1..loc[o].i}
      /\ pc[o] = "done" =>
           op[o].status = "FAILED" /\ op[o].error = Some([message |-> loc[o].exc])
      /\ sent[o].calls # {} => loc[o].exc \in FailureReasons(Stack(o))

AbortStep ==
  \A o \in Ops :
    pc[o] \in ExceptChain => sent'[o] = sent[o] /\ pc'[o] \in ExceptChain

\* C6: once a deploy stage has failed, the runner only records the failure: no
\* request goes out for a later stage, the operation ends FAILED, and its
\* error message is the reason the stage failed with.
PipelineAbort == []AbortInv /\ [][AbortStep]_vars

\* C6 witness: a deploy that failed when the msk stack went to CREATE_FAILED.
AbortWitness ==
  /\ 1 \in Ops /\ req[1].kind = "deploy" /\ pc[1] = "done"
  /\ op[1].error = Some([message |-> <<"demo", "msk", "CREATE", "FAILED">>])
  /\ sent[1].reached = {"network", "msk"}

\* C7: teardown takes the stacks in the reverse of the deploy order, and sends
\* no request for a stack before every stack ahead of it in that order has
\* been found missing or has been deleted to a status that ends the tailing.
TeardownOrder ==
  /\ TeardownRoles = Reversed(DeployRoles)
  /\ \A o \in Ops :
       req[o].kind = "teardown" =>
         \A k \in 1..NStages :
           TeardownRoles[k] \in sent[o].reached =>
             \A j \in 1..(k - 1) : TeardownRoles[j] \in sent[o].settled

\* C7 witness: the delete of the ec2 stack goes out after the ssm stack was
\* deleted (not skipped).
TeardownWitness ==
  /\ 1 \in Ops /\ req[1].kind = "teardown"
  /\ sent[1].last = <<"delete_stack", "ec2">>
  /\ "ssm" \in sent[1].settled
  /\ \A k \in 1..Len(op[1].logs) : op[1].logs[k] # <<"Stack", "demo", "ssm", "missing">>

\* C8: a teardown never fails because the provider reports a stack as not
\* existing.
MissingIsSkipped ==
  \A o \in Ops :
    (req[o].kind = "teardown" /\ op[o].status = "FAILED") =>
      \A e \in op[o].error : ~Contains(e.message, "does not exist")

NoChangeLine(o) == <<"No changes for">> \o Stack(o)

NoOpInv ==
  \A o \in Ops :
    /\ pc[o] = "nochange" =>
         /\ sent[o].last = <<"update_stack", Role(o)>>
         /\ sent[o].calls = {"describe_stacks", "update_stack"}
    /\ ( /\ pc[o] = "progress" /\ op[o].logs # <<>>
         /\ op[o].logs[Len(op[o].logs)] = NoChangeLine(o) ) =>
         /\ sent[o].last = <<"update_stack", Role(o)>>
         /\ sent[o].calls = {"describe_stacks", "update_stack"}
         /\ Len(op[o].logs) >= 2
         /\ op[o].logs[Len(op[o].logs) - 1] = DeployLines[loc[o].i]
         /\ op[o].status = "RUNNING"

NoOpStep ==
  \A o \in Ops :
    (pc[o] = "nochange" /\ pc'[o] # "nochange") =>
      /\ op'[o].logs = Append(op[o].logs, NoChangeLine(o))
      /\ sent'[o] = sent[o]
      /\ pc'[o] = "progress"

\* C9: when the provider rejects the update of an existing stack as having no
\* changes, _deploy_stack appends the no-change line and nothing else, sends
\* no request after the update, and returns to the pipeline, which goes on.
ReconciliationNoOp == []NoOpInv /\ [][NoOpStep]_vars

\* C9 witness: the msk stage returned through the no-change branch.
NoOpWitness ==
  /\ 1 \in Ops /\ pc[1] = "progress" /\ loc[1].i = 2
  /\ op[1].logs[Len(op[1].logs)] = <<"No changes for", "demo", "msk">>

EvictionInv ==
  /\ \A o \in Ops :
       rd[o].at # "idle" =>
         (rd[o].resp.code = 404 <=> rd[o].resp.time - op[o].created > TTL_SECONDS)
  /\ \A o \in Ops \ OPERATIONS : now - op[o].created > TTL_SECONDS

EvictionStep ==
  IF \E o \in Ops : rd[o].at = "idle" /\ rd'[o].at # "idle"
  THEN OPERATIONS' = {x \in OPERATIONS : now - op[x].created <= TTL_SECONDS}
  ELSE OPERATIONS \subseteq OPERATIONS'

\* C10: a read at clock reading t finds an operation created at T exactly when
\* t - T does not exceed TTL_SECONDS, whatever its status, and the sweep of a
\* read removes the operations older than TTL_SECONDS and no other.
Eviction == []EvictionInv /\ [][EvictionStep]_vars

\* C10 witness: a succeeded operation is gone while a later one stays.
EvictionWitness ==
  /\ 1 \in Ops /\ rd[1].at = "respond" /\ rd[1].resp.code = 404
  /\ op[1].status = "SUCCEEDED"
  /\ 2 \in OPERATIONS /\ 1 \notin OPERATIONS

ErrorLine(o) == <<"Error:">> \o loc[o].exc

FailureInv ==
  \A o \in Ops :
    /\ loc[o].exc # <<>> => pc[o] \in ExceptChain
    /\ (loc[o].exc # <<>> /\ pc[o] = "done") =>
         /\ op[o].status = "FAILED"
         /\ op[o].error = Some([message |-> loc[o].exc])
         /\ op[o].logs[Len(op[o].logs)] = ErrorLine(o)
    /\ op[o].status = "FAILED" =>
         /\ loc[o].exc # <<>>
         /\ op[o].error = Some([message |-> loc[o].exc])
         /\ op[o].logs # <<>> /\ op[o].logs[Len(op[o].logs)] = ErrorLine(o)

FailureStep ==
  \A o \in Ops :
    /\ (loc[o].exc = <<>> /\ loc'[o].exc # <<>>) => pc'[o] = "except"
    /\ pc[o] = "except" => pc'[o] \in {"except", "seterror"}
    /\ pc[o] = "seterror" => pc'[o] \in {"seterror", "fail"}
    /\ pc[o] = "fail" => pc'[o] \in {"fail", "done"}

\* C11: a failure raised at any step of a runner (deploy, test, teardown) is
\* caught by the runner's handler, which logs 'Error: <message>', sets
\* error.message to the message and then the status to FAILED; whenever the
\* status is FAILED the error is set and the Error line is the last of the log.
FailureRecording == []FailureInv /\ [][FailureStep]_vars

\* C11 witness: a test whose command ended Failed with stderr "boom".
FailureWitness ==
  /\ 1 \in Ops /\ req[1].kind = "test" /\ pc[1] = "done"
  /\ op[1].status = "FAILED" /\ op[1].error = Some([message |-> <<"boom">>])
  /\ op[1].logs = << <<"Running test via SSM">>, <<"Error:", "boom">> >>

OutputsInv == \A o \in Ops : HasOutputs(o) => op[o].status = "SUCCEEDED"

OutputsStep ==
  \A o \in Ops : op'[o].outputs # op[o].outputs => ~HasOutputs(o)

\* C12: outputs is assigned at most once, and in no state is it non-empty
\* while the status is RUNNING or FAILED.
OutputsWithSuccess == []OutputsInv /\ [][OutputsStep]_vars

\* C13, in the two consequences the claim names: a response is the operation's
\* state at one instant of the read, so it carries neither outputs nor error
\* with status RUNNING, and with a terminal status it carries every log line
\* from since to the operation's last.
ConsistentSnapshot ==
  \A o \in Ops :
    (rd[o].at = "respond" /\ rd[o].resp.code = 200) =>
      /\ rd[o].resp.status = "RUNNING" =>
            rd[o].resp.outputs = None /\ rd[o].resp.error = None
      /\ rd[o].resp.status \in Terminal =>
            rd[o].resp.logs = SubSeq(op[o].logs, rd[o].resp.since + 1, Len(op[o].logs))

\* C14: a stack status containing FAILED or ROLLBACK ends the tailing loop
\* with a failure whose message carries the status; the stage is never taken
\* as reconciled.
RollbackIsFailure ==
  \A o \in Ops :
    ( /\ loc[o].status # <<>>
      /\ Contains(loc[o].status, "FAILED") \/ Contains(loc[o].status, "ROLLBACK") ) =>
      /\ pc[o] \in ExceptChain
      /\ loc[o].exc = Stack(o) \o loc[o].status
      /\ Role(o) \notin sent[o].settled

\* The runner is inside _poll_stack_events.
Tailing(o) == req[o].kind # "test" /\ pc[o] \in {"events", "emit", "status", "sleep"}

\* '<status> <logical-resource> <reason>' without a trailing blank
ExpectedLine(ev) ==
  IF ev.ResourceStatusReason = ""
  THEN <<ev.ResourceStatus, ev.LogicalResourceId>>
  ELSE <<ev.ResourceStatus, ev.LogicalResourceId, ev.ResourceStatusReason>>

\* The line the runner logged before it called the reconciler.
StageLine(o) ==
  IF req[o].kind = "deploy" THEN DeployLines[loc[o].i] ELSE <<"Deleting">> \o Stack(o)

TailingInv ==
  \A o \in Ops :
    Tailing(o) =>
      LET k == Cardinality(loc[o].seen)
          n == Len(op[o].logs) IN
        /\ loc[o].seen = 1..k
        /\ n > k
        /\ op[o].logs[n - k] = StageLine(o)
        /\ \A j \in 1..k : op[o].logs[n - k + j] = ExpectedLine(Event(j))

TailingStep ==
  \A o \in Ops :
    (Tailing(o) /\ op'[o].logs # op[o].logs) =>
      /\ pc[o] = "emit"
      /\ Head(loc[o].pend).EventId \notin loc[o].seen
      /\ op'[o].logs = Append(op[o].logs, ExpectedLine(Head(loc[o].pend)))

\* C15: during one call of _poll_stack_events the log grows by one line
\* '<status> <logical-resource> <reason>' for each event identifier not seen
\* before, and by nothing else, so that after the stage's own line it holds
\* the events seen so far, each once, oldest first.
EventsOnceInOrder == []TailingInv /\ [][TailingStep]_vars

\* C15 witness: a second poll returns the event already logged together with
\* a new one.
EventsWitness ==
  /\ 1 \in Ops /\ pc[1] = "emit" /\ loc[1].seen = {1}
  /\ loc[1].pend = <<Event(1), Event(2)>>

ExistenceInv ==
  \A o \in Ops :
    req[o].kind = "deploy" =>
      LET calls == sent[o].calls
          query == sent[o].query
          missing == <<"ValidationError">> \o Stack(o) \o <<"does not exist">> IN
        /\ ~({"create_stack", "update_stack"} \subseteq calls)
        /\ "create_stack" \in calls => query = missing
        /\ "update_stack" \in calls => query = <<"found">>
        /\ query = missing => pc[o] = "create" \/ "create_stack" \in calls
        /\ query = <<"found">> => pc[o] = "update" \/ "update_stack" \in calls
        /\ query \notin {<<>>, <<"found">>, missing} =>
             /\ calls = {"describe_stacks"}
             /\ pc[o] \in ExceptChain /\ loc[o].exc = query
             /\ pc[o] = "done" => op[o].status = "FAILED"

ExistenceStep ==
  \A o \in Ops :
    /\ (pc[o] = "create" /\ pc'[o] # "create") => "create_stack" \in sent'[o].calls
    /\ (pc[o] = "update" /\ pc'[o] # "update") => "update_stack" \in sent'[o].calls

\* C16: _deploy_stack sends create_stack exactly when the existence check
\* answered that the stack does not exist, update_stack exactly when it found
\* the stack, never both, and neither when the check failed otherwise, in
\* which case the failure fails the operation.
ExistenceSelectsBranch == []ExistenceInv /\ [][ExistenceStep]_vars

\* C16 witness: the msk stack did not exist and its creation is tailed.
ExistenceWitness ==
  /\ 1 \in Ops /\ req[1].kind = "deploy" /\ pc[1] = "events" /\ loc[1].i = 2
  /\ sent[1].calls = {"describe_stacks", "create_stack"}
  /\ sent[1].query = <<"ValidationError", "demo", "msk", "does not exist">>

\* The runner has sent create_stack, update_stack or delete_stack for its
\* stack and has not yet left the tailing of it.
Reconciling(o) == Tailing(o) /\ loc[o].request # ""

\* C17: no two operations are at the same time between the request that
\* creates, updates or deletes a stack and the end of its tailing, for the
\* same stack name.
NoSharedStack ==
  \A a, b \in Ops :
    (a # b /\ Reconciling(a) /\ Reconciling(b)) => Stack(a) # Stack(b)

CommandLogInv ==
  \A o \in Ops :
    req[o].kind = "test" =>
      /\ Len(op[o].logs) <= 2
      /\ \A j \in 1..Len(op[o].logs) :
           op[o].logs[j] \in {<<"Running test via SSM">>, <<"Test complete">>,
                              <<"Error:">> \o loc[o].exc}
      /\ HasOutputs(o) =>
           \E inv \in loc[o].inv :
             /\ inv.Status = "Success"
             /\ \A k \in 1..Len(op[o].outputs.messages) :
                  \E j \in 1..Len(inv.StandardOutputContent) :
                    inv.StandardOutputContent[j] = op[o].outputs.messages[k]

CommandLogStep ==
  \A o \in Ops :
    (req[o].kind = "test" /\ pc[o] \in {"invocation", "sleep"}) =>
      op'[o].logs = op[o].logs

OutputOf(o, role, key) == <<<<req[o].stack_base, role>>, key>>

\* The Parameters the claim gives each stage.
ClaimedParams(o, role) ==
  CASE role = "msk" ->
         [MskSubnetIds |-> OutputOf(o, "network", "MskSubnetIds"),
          MskSecurityGroupId |-> OutputOf(o, "network", "MskSecurityGroupId")]
    [] role = "ec2" ->
         [Ec2SubnetId |-> OutputOf(o, "network", "Ec2SubnetId"),
          Ec2SecurityGroupId |-> OutputOf(o, "network", "Ec2SecurityGroupId"),
          MskClusterArn |-> OutputOf(o, "msk", "MskClusterArn")]
    [] role = "network" -> [CreateNAT |-> <<"false">>]
    [] OTHER -> EmptyDict

\* The outputs of the stages before stage k have been read back.
ReadBack(o, k) ==
  /\ k >= 2 => /\ DOMAIN loc[o].network_outputs =
                     {"MskSubnetIds", "MskSecurityGroupId", "Ec2SubnetId", "Ec2SecurityGroupId"}
                /\ \A key \in DOMAIN loc[o].network_outputs :
                     loc[o].network_outputs[key] = OutputOf(o, "network", key)
  /\ k >= 3 => loc[o].cluster_arn = OutputOf(o, "msk", "MskClusterArn")
  /\ k >= 4 => loc[o].instance_id = OutputOf(o, "ec2", "Ec2InstanceId")

PropagationInv ==
  \A o \in Ops :
    req[o].kind = "deploy" =>
      /\ \A k \in 1..NStages :
           DeployRoles[k] \in sent[o].reached =>
             /\ \A j \in 1..(k - 1) : DeployRoles[j] \in sent[o].settled
             /\ ReadBack(o, k)
             /\ op[o].progress >= (IF k = 1 THEN 0 ELSE DeployProgress[k - 1])
      /\ sent[o].calls \cap {"create_stack", "update_stack"} # {} =>
           sent[o].params = ClaimedParams(o, Role(o))
      /\ op[o].status = "SUCCEEDED" =>
           /\ DOMAIN op[o].outputs = {"ClusterArn", "BootstrapBrokers", "Ec2InstanceId"}
           /\ op[o].outputs.ClusterArn = OutputOf(o, "msk", "MskClusterArn")
           /\ op[o].outputs.Ec2InstanceId = OutputOf(o, "ec2", "Ec2InstanceId")
           /\ op[o].outputs.BootstrapBrokers \in
                {<<"brokers", OutputOf(o, "msk", "MskClusterArn")>>, <<>>}
           /\ sent[o].settled = {"network", "msk", "ec2", "ssm"}

PropagationStep ==
  \A o \in Ops :
    (req[o].kind = "deploy" /\ op'[o].progress # op[o].progress) =>
      <<op[o].progress, op'[o].progress>> \in
        {<<0, 25>>, <<25, 50>>, <<50, 75>>, <<75, 90>>, <<90, 100>>}

\* C19: a deploy sends no request for a stage before every earlier stage was
\* reconciled (its _deploy_stack call returned) and its outputs were read back; the msk stage gets the network
\* stack's MskSubnetIds and MskSecurityGroupId, the ec2 stage the network
\* stack's Ec2SubnetId and Ec2SecurityGroupId and the msk stack's
\* MskClusterArn; on success the outputs are the msk stack's cluster ARN, the
\* broker string returned for that ARN (empty when the answer has none) and the
\* ec2 stack's instance id; the progress moves 0, 25, 50, 75, 90, 100.
OutputPropagation == []PropagationInv /\ [][PropagationStep]_vars

\* C19 witness: the ec2 stack is being created with its three parameters.
PropagationWitness ==
  /\ 1 \in Ops /\ req[1].kind = "deploy" /\ loc[1].i = 3
  /\ sent[1].last = <<"create_stack", "ec2">>
  /\ sent[1].params =
       [Ec2SubnetId |-> <<<<"demo", "network">>, "Ec2SubnetId">>,
        Ec2SecurityGroupId |-> <<<<"demo", "network">>, "Ec2SecurityGroupId">>,
        MskClusterArn |-> <<<<"demo", "msk">>, "MskClusterArn">>]
  /\ op[1].progress = 50

\* The positions of the lines of out that are not blank.
NonBlankAt(out) == {k \in 1..Len(out) : out[k] \notin {"", " "}}

\* The position of the j-th non-blank line of out.
NthNonBlank(out, j) ==
  CHOOSE k \in NonBlankAt(out) : Cardinality({x \in NonBlankAt(out) : x <= k}) = j

\* m is the last five non-blank lines of out, in their order.
IsLastFive(m, out) ==
  LET n == Cardinality(NonBlankAt(out))
      len == IF n < 5 THEN n ELSE 5 IN
    /\ Len(m) = len
    /\ \A j \in 1..len : m[j] = out[NthNonBlank(out, n - len + j)]

CommandResultInv ==
  \A o \in Ops :
    req[o].kind = "test" =>
      /\ pc[o] \in {"invocation", "sleep"} =>
           loc[o].inv = None /\ ~HasOutputs(o) /\ op[o].status = "RUNNING"
      /\ \A inv \in loc[o].inv :
           /\ inv.Status \notin {"Pending", "InProgress", "Delayed"}
           /\ inv.Status = "Success" =>
                /\ pc[o] \in {"logdone", "finish", "succeed", "done"}
                /\ op[o].outputs.topic = req[o].topic
                /\ IsLastFive(op[o].outputs.messages, inv.StandardOutputContent)
                /\ pc[o] = "done" => op[o].status = "SUCCEEDED"
           /\ inv.Status # "Success" =>
                LET detail == IF inv.StandardErrorContent = <<>>
                              THEN <<inv.Status>> ELSE inv.StandardErrorContent IN
                  /\ pc[o] \in ExceptChain
                  /\ loc[o].exc = detail
                  /\ ~HasOutputs(o)
                  /\ pc[o] = "done" =>
                       op[o].status = "FAILED" /\ op[o].error = Some([message |-> detail])

CommandResultStep ==
  \A o \in Ops :
    (req[o].kind = "test" /\ pc[o] = "invocation" /\ pc'[o] = "sleep") =>
      op'[o] = op[o] /\ loc'[o] = loc[o]

\* C20: a test whose command ends with Success has as messages the last five
\* non-blank lines of the stdout of that invocation, in order, and as topic the
\* requested topic, whatever the rounds before it returned; a command that ends
\* otherwise fails the operation with its stderr, or with the status when the
\* stderr is empty.
CommandResult == []CommandResultInv /\ [][CommandResultStep]_vars

\* C20 witness: after MaxPolls pending rounds the command succeeds with eight
\* lines of stdout, blank ones among them.
CommandResultWitness ==
  /\ 1 \in Ops /\ req[1].kind = "test" /\ pc[1] = "done"
  /\ sent[1].polls = MaxPolls
  /\ \E inv \in loc[1].inv :
       inv.StandardOutputContent = <<"0", "", "1", "2", " ", "3", "4", "5">>
  /\ op[1].outputs = [messages |-> <<"1", "2", "3", "4", "5">>, topic |-> "poc-topic"]

====
